---- MODULE Spec2Model ----
(***************************************************************************)
(* gospecify: the init command (cmd/init.go), the template processor       *)
(* (internal/templates), the script generator (internal/scripts), the      *)
(* assistant and script-type registries and the step tracker               *)
(* (internal/config).                                                      *)
(*                                                                         *)
(* Texts are TLA+ strings, read character by character: the Go functions   *)
(* of package strings that the code calls are operators over them.         *)
(* File-system paths are written relative to the working directory of the  *)
(* process ("." is the working directory itself).                          *)
(***************************************************************************)
EXTENDS Integers, Sequences, FiniteSets, TLC

VARIABLES
    pc,         \* position of the running command
    cfg,        \* config.ProjectConfig as filled by the flags and the steps
    args,       \* positional arguments of the command line
    fs,         \* file system: path -> [kind, data]
    env,        \* what the process finds outside: PATH, the selector's user
    assets,     \* templates.EmbeddedAssets: [Templates, Scripts]
    steps,      \* config.StepTracker.Steps
    clock,      \* time.Now(), a counter that grows with every reading
    assistant,  \* the *config.AIAssistant runInit resolved
    result,     \* what the command returned: "none", "nil" or an error
    gitCalls,   \* the git commands the run has executed
    fs0,        \* the file system as the command found it
    req,        \* the processor's or generator's construction: assistant, script type
    out,        \* what the last template or script operation returned
    mu,         \* config.StepTracker.mu, the sync.RWMutex
    refreshCb,  \* config.StepTracker.refreshCb
    inCall,     \* the tracker operation the orchestrator's goroutine is in
    reader      \* the GetSteps call of a second goroutine, and its result

vars == <<pc, cfg, args, fs, env, assets, steps, clock, assistant, result,
          gitCalls, fs0, req, out, mu, refreshCb, inCall, reader>>

lockVars == <<mu, refreshCb, inCall, reader>>

runVars == <<cfg, args, fs, env, steps, clock, assistant, result, gitCalls, fs0>>

-----------------------------------------------------------------------------
(* package strings *)

\* strings.HasPrefix
HasPrefix(s, prefix) ==
    /\ Len(s) >= Len(prefix)
    /\ SubSeq(s, 1, Len(prefix)) = prefix

\* strings.TrimPrefix
TrimPrefix(s, prefix) ==
    IF HasPrefix(s, prefix) THEN SubSeq(s, Len(prefix) + 1, Len(s)) ELSE s


\* strings.Index from position i on: where substr first starts, 0 for nowhere
RECURSIVE IndexFrom(_, _, _)
IndexFrom(s, substr, i) ==
    IF i + Len(substr) - 1 > Len(s) THEN 0
    ELSE IF SubSeq(s, i, i + Len(substr) - 1) = substr THEN i
    ELSE IndexFrom(s, substr, i + 1)

\* strings.ReplaceAll for a non-empty old: the non-overlapping occurrences,
\* found from the left, are replaced in one pass.
RECURSIVE ReplaceFrom(_, _, _, _)
ReplaceFrom(s, old, new, i) ==
    LET j == IndexFrom(s, old, i)
    IN  IF j = 0 THEN SubSeq(s, i, Len(s))
        ELSE SubSeq(s, i, j - 1) \o new \o ReplaceFrom(s, old, new, j + Len(old))

ReplaceAll(s, old, new) == ReplaceFrom(s, old, new, 1)

\* strings.Contains
Contains(s, substr) == IndexFrom(s, substr, 1) # 0

\* strings.Split(s, "\n"): the lines of s, one more than its line feeds
RECURSIVE SplitFrom(_, _, _)
SplitFrom(s, i, cur) ==
    IF i > Len(s) THEN <<cur>>
    ELSE IF SubSeq(s, i, i) = "\n"
         THEN <<cur>> \o SplitFrom(s, i + 1, "")
         ELSE SplitFrom(s, i + 1, cur \o SubSeq(s, i, i))

SplitLines(s) == SplitFrom(s, 1, "")

\* strings.Join(lines, "\n")
RECURSIVE JoinLines(_)
JoinLines(lines) ==
    IF Len(lines) = 0 THEN ""
    ELSE IF Len(lines) = 1 THEN lines[1]
    ELSE lines[1] \o "\n" \o JoinLines(Tail(lines))

-----------------------------------------------------------------------------
(* internal/config: the registries *)

FormatMarkdown == "md"
FormatTOML == "toml"
FormatPrompt == "prompt.md"

ScriptTypeBash == "sh"
ScriptTypePowerShell == "ps"

Assistant(key, name, dir, format, tool, argFormat) ==
    [Key |-> key, Name |-> name, Directory |-> dir, Format |-> format,
     CLITool |-> tool, ArgFormat |-> argFormat]

AIAssistants ==
    ("copilot"  :> Assistant("copilot", "GitHub Copilot", ".github/prompts/",
                             FormatPrompt, "", "$ARGUMENTS")) @@
    ("claude"   :> Assistant("claude", "Claude Code", ".claude/commands/",
                             FormatMarkdown, "claude", "$ARGUMENTS")) @@
    ("gemini"   :> Assistant("gemini", "Gemini CLI", ".gemini/commands/",
                             FormatTOML, "gemini", "{{args}}")) @@
    ("cursor"   :> Assistant("cursor", "Cursor", ".cursor/commands/",
                             FormatMarkdown, "cursor-agent", "$ARGUMENTS")) @@
    ("qwen"     :> Assistant("qwen", "Qwen Code", ".qwen/commands/",
                             FormatTOML, "qwen", "{{args}}")) @@
    ("opencode" :> Assistant("opencode", "opencode", ".opencode/command/",
                             FormatMarkdown, "opencode", "$ARGUMENTS")) @@
    ("codex"    :> Assistant("codex", "Codex CLI", ".codex/",
                             FormatMarkdown, "codex", "$ARGUMENTS")) @@
    ("windsurf" :> Assistant("windsurf", "Windsurf", ".windsurf/workflows/",
                             FormatMarkdown, "", "$ARGUMENTS")) @@
    ("kilocode" :> Assistant("kilocode", "Kilo Code", ".kilocode/",
                             FormatMarkdown, "kilocode", "$ARGUMENTS")) @@
    ("auggie"   :> Assistant("auggie", "Auggie CLI", ".augment/",
                             FormatMarkdown, "auggie", "$ARGUMENTS")) @@
    ("roo"      :> Assistant("roo", "Roo Code", ".roo/",
                             FormatMarkdown, "roo", "$ARGUMENTS"))

\* the zero value of config.AIAssistant, what a Go map returns for a missing key
ZeroAssistant == Assistant("", "", "", "", "", "")

AIChoices == DOMAIN AIAssistants

ScriptTypes ==
    ("sh" :> [Key |-> "sh", Name |-> "POSIX Shell (bash/zsh)",
              Extension |-> ".sh", Platform |-> "unix"]) @@
    ("ps" :> [Key |-> "ps", Name |-> "PowerShell",
              Extension |-> ".ps1", Platform |-> "windows"])

-----------------------------------------------------------------------------
(* internal/templates: Processor *)

Placeholders == {"__AGENT__", "$ARGUMENTS", "{{args}}", "{SCRIPT}"}

\* the replacements map of Processor.applyReplacements
Replacements(a) ==
    ("__AGENT__"  :> a.Key) @@
    ("$ARGUMENTS" :> a.ArgFormat) @@
    ("{{args}}"   :> a.ArgFormat) @@
    ("{SCRIPT}"   :> "")

\* The range over a replacements map: Go leaves the order in which the keys of
\* a map are visited unspecified, so every key not yet visited can come next.
\* `reached` holds the loop's possible states, the content and the keys left;
\* the result is every content the loop can end with.
RECURSIVE RangeOutcomes(_, _)
RangeOutcomes(reached, repl) ==
    IF \A p \in reached : p.left = {} THEN {p.content : p \in reached}
    ELSE RangeOutcomes(
             UNION {{[content |-> ReplaceAll(p.content, t, repl[t]),
                      left |-> p.left \ {t}] : t \in p.left} : p \in reached},
             repl)

\* Processor.applyReplacements: every content it can return
applyReplacements(content, a) ==
    RangeOutcomes({[content |-> content, left |-> Placeholders]}, Replacements(a))

getScriptName(st) ==
    CASE st = ScriptTypeBash -> "setup.sh"
      [] st = ScriptTypePowerShell -> "setup.ps1"
      [] OTHER -> "setup.sh"

\* Processor.getScriptPath
ProcessorScriptPath(st) == ".specify/scripts/" \o getScriptName(st)

processMarkdownLine(line, st) ==
    IF Contains(line, "{SCRIPT}")
    THEN ReplaceAll(line, "{SCRIPT}", ProcessorScriptPath(st))
    ELSE line

processMarkdownTemplate(content, st) ==
    LET lines == SplitLines(content)
    IN  JoinLines([i \in 1..Len(lines) |-> processMarkdownLine(lines[i], st)])

\* the loop of processTOMLTemplate from line i on, inPrompt as the loop left it
RECURSIVE TOMLLines(_, _, _, _)
TOMLLines(lines, i, inPrompt, a) ==
    IF i > Len(lines) THEN <<>>
    ELSE LET line == lines[i]
             now  == IF Contains(line, "prompt = \"\"\"") THEN TRUE
                     ELSE IF inPrompt /\ Contains(line, "\"\"\"") THEN FALSE
                     ELSE inPrompt
             done == IF now
                     THEN ReplaceAll(ReplaceAll(line, "$ARGUMENTS", a.ArgFormat),
                                     "{{args}}", a.ArgFormat)
                     ELSE line
         IN  <<done>> \o TOMLLines(lines, i + 1, now, a)

processTOMLTemplate(content, a) ==
    JoinLines(TOMLLines(SplitLines(content), 1, FALSE, a))

processPromptTemplate(content, st) ==
    ReplaceAll(content, "{SCRIPT}", ProcessorScriptPath(st))

\* the switch on the assistant's format in ProcessTemplate
FormatStep(content, a, st) ==
    CASE a.Format = FormatMarkdown -> processMarkdownTemplate(content, st)
      [] a.Format = FormatTOML -> processTOMLTemplate(content, a)
      [] a.Format = FormatPrompt -> processPromptTemplate(content, st)
      [] OTHER -> content

\* Processor.ProcessTemplate on the text of an existing template: every text
\* it can return, applyReplacements followed by the step of the format
SubstituteOutcomes(content, a, st) ==
    {FormatStep(c, a, st) : c \in applyReplacements(content, a)}

-----------------------------------------------------------------------------
(* internal/templates: EmbeddedAssets, and Processor.ProcessAllTemplates *)

NoError == [Code |-> "", Message |-> "", Cause |-> ""]

\* errors.New and errors.Wrap; Cause is the cause's message
NewError(code, message) == [Code |-> code, Message |-> message, Cause |-> ""]
WrapError(code, message, cause) ==
    [Code |-> code, Message |-> message, Cause |-> cause]

\* Error.Error()
ErrorText(e) == IF e.Cause # "" THEN e.Message \o ": " \o e.Cause ELSE e.Message

NewAssetNotFound(assetName) ==
    NewError("ASSET_NOT_FOUND", "asset not found: " \o assetName)

GetTemplate(a, name) ==
    IF name \in DOMAIN a.Templates
    THEN [content |-> a.Templates[name], exists |-> TRUE]
    ELSE [content |-> "", exists |-> FALSE]

GetScript(a, name) ==
    IF name \in DOMAIN a.Scripts
    THEN [content |-> a.Scripts[name], exists |-> TRUE]
    ELSE [content |-> "", exists |-> FALSE]

\* the sequences over the elements of S, each once
RECURSIVE Enumerations(_)
Enumerations(S) ==
    IF S = {} THEN {<<>>}
    ELSE UNION {{<<x>> \o e : e \in Enumerations(S \ {x})} : x \in S}

\* a listing of the command templates only
ListCommandTemplates(a) ==
    Enumerations({n \in DOMAIN a.Templates : HasPrefix(n, "commands/")})

\* EmbeddedAssets.ListTemplates: the names, in any order the map gives them
ListTemplates(a) == Enumerations(DOMAIN a.Templates)

\* Processor.ProcessTemplate: every (content, err) it can return
ProcessTemplate(a, templateName, asst, st) ==
    LET t == GetTemplate(a, templateName)
    IN  IF ~t.exists
        THEN {[content |-> "",
               err |-> NewAssetNotFound("template " \o templateName)]}
        ELSE {[content |-> c, err |-> NoError] :
                 c \in SubstituteOutcomes(t.content, asst, st)}

\* The loop of ProcessAllTemplates over `names` from index i on, `processed`
\* being the map so far: every (processed, err) it can end with.
RECURSIVE ProcessAllFrom(_, _, _, _)
ProcessAllFrom(call, names, i, processed) ==
    IF i > Len(names) THEN {[processed |-> processed, err |-> NoError]}
    ELSE UNION {
           IF r.err # NoError
           THEN {[processed |-> <<>>,
                  err |-> WrapError("TEMPLATE_ERROR",
                              "failed to process template " \o names[i],
                              ErrorText(r.err))]}
           ELSE ProcessAllFrom(call, names, i + 1,
                               (names[i] :> r.content) @@ processed)
           : r \in call[names[i]]}

\* Processor.ProcessAllTemplates; call[n] is what p.ProcessTemplate(n) can return
ProcessAllTemplates(a, asst, st) ==
    LET listed == ListTemplates(a)
        call == [n \in UNION {{names[i] : i \in 1..Len(names)} : names \in listed}
                    |-> ProcessTemplate(a, n, asst, st)]
    IN  UNION {ProcessAllFrom(call, names, 1, <<>>) : names \in listed}

-----------------------------------------------------------------------------
(* internal/scripts: Generator *)

GetScriptExtension(st) ==
    CASE st = ScriptTypeBash -> ".sh"
      [] st = ScriptTypePowerShell -> ".ps1"
      [] OTHER -> ""

\* Generator.getScriptPath
GeneratorScriptPath(scriptName, st) ==
    LET extension == CASE st = ScriptTypeBash -> ".sh"
                       [] st = ScriptTypePowerShell -> ".ps1"
                       [] OTHER -> ".sh"
    IN  st \o "/" \o scriptName \o extension

getScriptReference(st) ==
    CASE st = ScriptTypeBash -> "./setup.sh"
      [] st = ScriptTypePowerShell -> ".\\setup.ps1"
      [] OTHER -> "./setup.sh"

\* Generator.applyReplacements: a map of two keys, visited agentFirst or not
GeneratorReplacements(content, asst, st, agentFirst) ==
    IF agentFirst
    THEN ReplaceAll(ReplaceAll(content, "__AGENT__", asst.Key),
                    "{SCRIPT}", getScriptReference(st))
    ELSE ReplaceAll(ReplaceAll(content, "{SCRIPT}", getScriptReference(st)),
                    "__AGENT__", asst.Key)

\* Generator.GenerateScript: every result, with the asset key it looked up
GenerateScript(a, scriptName, asst, st) ==
    LET key    == GeneratorScriptPath(scriptName, st)
        script == GetScript(a, key)
    IN  IF ~script.exists
        THEN {[lookup |-> key, content |-> "",
               err |-> NewAssetNotFound("script template " \o scriptName)]}
        ELSE {[lookup |-> key, err |-> NoError,
               content |-> GeneratorReplacements(script.content, asst, st, b)] :
                 b \in BOOLEAN}

ScriptNames ==
    <<"check-prerequisites", "create-new-feature", "setup-plan",
      "update-agent-context">>

\* a loop that passes over a script it cannot generate and goes on
RECURSIVE GenerateAllSkipping(_, _, _, _, _)
GenerateAllSkipping(a, i, scripts, asst, st) ==
    IF i > Len(ScriptNames) THEN {[scripts |-> scripts, err |-> NoError]}
    ELSE UNION {
           IF r.err # NoError
           THEN GenerateAllSkipping(a, i + 1, scripts, asst, st)
           ELSE GenerateAllSkipping(a, i + 1,
                                    (ScriptNames[i] :> r.content) @@ scripts,
                                    asst, st)
           : r \in GenerateScript(a, ScriptNames[i], asst, st)}

RECURSIVE GenerateAllFrom(_, _, _, _, _)
GenerateAllFrom(a, i, scripts, asst, st) ==
    IF i > Len(ScriptNames) THEN {[scripts |-> scripts, err |-> NoError]}
    ELSE UNION {
           IF r.err # NoError
           THEN {[scripts |-> <<>>,
                  err |-> WrapError("SCRIPT_ERROR",
                              "failed to generate script " \o ScriptNames[i],
                              ErrorText(r.err))]}
           ELSE GenerateAllFrom(a, i + 1,
                                (ScriptNames[i] :> r.content) @@ scripts, asst, st)
           : r \in GenerateScript(a, ScriptNames[i], asst, st)}

GenerateAllScripts(a, asst, st) == GenerateAllFrom(a, 1, <<>>, asst, st)

-----------------------------------------------------------------------------
(* the file system, as package os and path/filepath show it to the command *)

\* the index of the last "/" of p, 0 when it has none
RECURSIVE LastSlash(_, _)
LastSlash(p, i) ==
    IF i = 0 THEN 0
    ELSE IF SubSeq(p, i, i) = "/" THEN i ELSE LastSlash(p, i - 1)

\* filepath.Dir of a clean relative path
Dir(p) ==
    LET i == LastSlash(p, Len(p))
    IN  IF i = 0 THEN "." ELSE SubSeq(p, 1, i - 1)

\* filepath.Clean of one path element: no trailing separator
RECURSIVE TrimSlash(_)
TrimSlash(p) ==
    IF Len(p) > 0 /\ SubSeq(p, Len(p), Len(p)) = "/"
    THEN TrimSlash(SubSeq(p, 1, Len(p) - 1))
    ELSE p

\* filepath.Join of two elements: an empty element is ignored, "." is the
\* working directory
Join(a, b) ==
    LET x == TrimSlash(a)
        y == TrimSlash(b)
    IN  IF y = "" \/ y = "." THEN (IF x = "" THEN "." ELSE x)
        ELSE IF x = "" \/ x = "." THEN y
        ELSE x \o "/" \o y

\* p and the directories above it, below the working directory
RECURSIVE UpTo(_)
UpTo(p) == IF p = "." THEN {} ELSE {p} \cup UpTo(Dir(p))

\* os.Stat(p) returns a nil error; the working directory always exists
Stat(f, p) == p = "." \/ p \in DOMAIN f

IsDir(f, p) == p = "." \/ (p \in DOMAIN f /\ f[p].kind = "dir")

\* os.ReadDir of the working directory: its entries
ReadDir(f) == {p \in DOMAIN f : LastSlash(p, Len(p)) = 0}

\* os.MkdirAll(p): fails when p or a directory above it is a file
MkdirAllFails(f, p) == \E q \in UpTo(p) : q \in DOMAIN f /\ f[q].kind # "dir"

MkdirAll(f, p) ==
    [q \in DOMAIN f \cup UpTo(p) |->
        IF q \in DOMAIN f THEN f[q] ELSE [kind |-> "dir", data |-> ""]]

\* os.WriteFile(p, data): fails when the directory of p is missing or p is a
\* directory
WriteFileFails(f, p) == ~IsDir(f, Dir(p)) \/ IsDir(f, p)

WriteFile(f, p, data) ==
    [q \in DOMAIN f \cup {p} |->
        IF q = p THEN [kind |-> "file", data |-> data] ELSE f[q]]

-----------------------------------------------------------------------------
(* internal/config: StepTracker *)

StatusPending == "pending"
StatusRunning == "running"
StatusDone == "done"
StatusError == "error"
StatusSkipped == "skipped"

Terminal == {StatusDone, StatusError, StatusSkipped}

NewStep(key, label, status, detail) ==
    [Key |-> key, Label |-> label, Status |-> status, Detail |-> detail,
     Started |-> 0, Ended |-> 0]

\* the index of the first step with this key, 0 when there is none
StepIndex(st, key) ==
    IF \E i \in 1..Len(st) : st[i].Key = key
    THEN CHOOSE i \in 1..Len(st) :
             /\ st[i].Key = key
             /\ \A j \in 1..(i - 1) : st[j].Key # key
    ELSE 0

\* an Add that starts an existing step over as pending
AddStartingOver(st, key, label) ==
    IF StepIndex(st, key) # 0
    THEN [st EXCEPT ![StepIndex(st, key)] = NewStep(key, label, StatusPending, "")]
    ELSE Append(st, NewStep(key, label, StatusPending, ""))

\* StepTracker.Add
Add(st, key, label) ==
    IF StepIndex(st, key) # 0 THEN st
    ELSE Append(st, NewStep(key, label, StatusPending, ""))

\* an update that stamps Started and Ended at every transition, not the first
updateStampingAgain(st, key, status, detail, now) ==
    LET i == StepIndex(st, key)
    IN  IF i = 0 THEN Append(st, NewStep(key, key, status, detail))
        ELSE [st EXCEPT ![i] =
                [@ EXCEPT
                   !.Status = status,
                   !.Detail = IF detail # "" THEN detail ELSE @,
                   !.Started = IF status = StatusRunning THEN now ELSE @,
                   !.Ended = IF status \in Terminal THEN now ELSE @]]

\* StepTracker.update, time.Now() reading `now`
update(st, key, status, detail, now) ==
    LET i == StepIndex(st, key)
    IN  IF i = 0 THEN Append(st, NewStep(key, key, status, detail))
        ELSE [st EXCEPT ![i] =
                [@ EXCEPT
                   !.Status = status,
                   !.Detail = IF detail # "" THEN detail ELSE @,
                   !.Started = IF status = StatusRunning /\ @ = 0 THEN now ELSE @,
                   !.Ended = IF status \in Terminal /\ @ = 0 THEN now ELSE @]]

StepStatus(st, key) ==
    IF StepIndex(st, key) = 0 THEN "" ELSE st[StepIndex(st, key)].Status

\* a tracker nobody attached a callback to, used by one goroutine, between
\* two operations: the zero sync.RWMutex (no writer, no Lock call waiting, no
\* readers), a nil refreshCb, no operation and no GetSteps in progress
TrackerAtRest ==
    /\ mu = [writer |-> FALSE, waiting |-> FALSE, readers |-> {}]
    /\ refreshCb = "nil"
    /\ inCall = [at |-> "idle", op |-> "", key |-> "", detail |-> "", now |-> 0,
                 cb |-> "nil"]
    /\ reader = [at |-> "idle", slice |-> <<>>]

-----------------------------------------------------------------------------
(* cmd/init.go: the functions of the init command *)

NewValidationError(message) == NewError("VALIDATION_ERROR", message)

NewToolNotFound(toolName) ==
    NewError("TOOL_NOT_FOUND", "required tool not found: " \o toolName)

\* an Args function that only asks for a name when --here is absent
ArgsErrorNameMissingOnly(c, a) ==
    IF ~c.Here /\ Len(a) = 0
    THEN "must specify either a project name or use --here flag"
    ELSE ""

\* the Args function of the cobra command: the message of its error, "" for nil
ArgsError(c, a) ==
    IF c.Here /\ Len(a) > 0
    THEN "cannot specify both project name and --here flag"
    ELSE IF ~c.Here /\ Len(a) = 0
    THEN "must specify either a project name or use --here flag"
    ELSE ""

\* filepath.Base of the working directory
CwdName == "cwd"

\* a validateConfig that lets --force pass an existing directory
validateConfigForcePasses(c, f) ==
    LET c1 == IF c.Here
              THEN [c EXCEPT !.Path = ".", !.Name = CwdName]
              ELSE [c EXCEPT !.Path = Join(".", c.Name)]
    IN  IF ~c1.Here /\ ~c1.Force /\ Stat(f, c1.Path)
        THEN [cfg |-> c1,
              err |-> NewValidationError(
                          "Directory " \o c1.Path \o " already exists")]
        ELSE [cfg |-> c1, err |-> NoError]

\* validateConfig: the configuration as it leaves it, and its error
validateConfig(c, f) ==
    LET c1 == IF c.Here
              THEN [c EXCEPT !.Path = ".", !.Name = CwdName]
              ELSE [c EXCEPT !.Path = Join(".", c.Name)]
    IN  IF ~c1.Here /\ Stat(f, c1.Path)
        THEN [cfg |-> c1,
              err |-> NewValidationError(
                          "Directory " \o c1.Path \o " already exists")]
        ELSE [cfg |-> c1, err |-> NoError]

\* Selector.Run over the given keys: enter on an item returns its key, esc
\* or ctrl+c quit with nothing selected, and the terminal program can fail
SelectorRun(keys) ==
    {[selected |-> k, err |-> ""] : k \in keys \cup {""}}
        \cup {[selected |-> "", err |-> "could not open a new TTY"]}

\* selectAssistant, `sel` being what the selector returns when it is run
selectAssistant(c, sel) ==
    IF c.AIAssistant # ""
    THEN IF c.AIAssistant \notin DOMAIN AIAssistants
         THEN [assistant |-> ZeroAssistant, isNil |-> TRUE,
               err |-> NewValidationError(
                           "Unknown AI assistant: " \o c.AIAssistant)]
         ELSE [assistant |-> AIAssistants[c.AIAssistant], isNil |-> FALSE,
               err |-> NoError]
    ELSE IF sel.err # ""
    THEN [assistant |-> ZeroAssistant, isNil |-> TRUE,
          err |-> WrapError("VALIDATION_ERROR", "assistant selection failed",
                            sel.err)]
    ELSE [assistant |-> IF sel.selected \in DOMAIN AIAssistants
                        THEN AIAssistants[sel.selected] ELSE ZeroAssistant,
          isNil |-> FALSE, err |-> NoError]

\* selectScriptType
selectScriptType(c, sel) ==
    IF c.ScriptType # ""
    THEN IF c.ScriptType \notin DOMAIN ScriptTypes
         THEN [scriptType |-> "",
               err |-> NewValidationError(
                           "Unknown script type: " \o c.ScriptType)]
         ELSE [scriptType |-> c.ScriptType, err |-> NoError]
    ELSE IF sel.err # ""
    THEN [scriptType |-> "",
          err |-> WrapError("VALIDATION_ERROR", "script type selection failed",
                            sel.err)]
    ELSE [scriptType |-> sel.selected, err |-> NoError]

\* config.ScriptTypes[scriptType].Name, "" for a key the map does not hold
ScriptTypeName(st) == IF st \in DOMAIN ScriptTypes THEN ScriptTypes[st].Name ELSE ""

\* a checkRequiredTools that takes the missing git for an error as well
checkRequiredToolsGitRequired(asst, ignoreTools, path) ==
    IF ignoreTools THEN NoError
    ELSE IF "git" \notin path THEN NewToolNotFound("git")
    ELSE IF asst.CLITool # "" /\ asst.CLITool \notin path
    THEN NewToolNotFound(asst.CLITool)
    ELSE NoError

\* checkRequiredTools, `path` being the executables exec.LookPath finds
checkRequiredTools(asst, ignoreTools, path) ==
    IF ignoreTools THEN NoError
    ELSE IF asst.CLITool # "" /\ asst.CLITool \notin path
    THEN NewToolNotFound(asst.CLITool)
    ELSE NoError

\* an in-place branch that refuses a directory with entries, --force or not
prepareInPlaceForceIgnored(c, f) ==
    IF Cardinality(ReadDir(f)) > 0
    THEN [path |-> "", fs |-> f,
          err |-> NewError("VALIDATION_ERROR",
                      "directory is not empty (use --force to override)")]
    ELSE [path |-> ".", fs |-> f, err |-> NoError]

\* an in-place branch that lays out .specify before it looks at the directory
prepareInPlaceLaysOutFirst(c, f) ==
    IF Cardinality(ReadDir(f)) > 0 /\ ~c.Force
    THEN [path |-> "", fs |-> MkdirAll(f, ".specify"),
          err |-> NewError("VALIDATION_ERROR",
                      "directory is not empty (use --force to override)")]
    ELSE [path |-> ".", fs |-> f, err |-> NoError]

\* prepareProjectDirectory, the branch of cfg.Here: the current directory
prepareInPlace(c, f) ==
    IF Cardinality(ReadDir(f)) > 0 /\ ~c.Force
    THEN [path |-> "", fs |-> f,
          err |-> NewError("VALIDATION_ERROR",
                      "directory is not empty (use --force to override)")]
    ELSE [path |-> ".", fs |-> f, err |-> NoError]

\* prepareProjectDirectory, the else branch: a new project directory
prepareNewDirectory(c, f) ==
    LET projectPath == Join(".", c.Name)
    IN  IF Stat(f, projectPath)
        THEN [path |-> "", fs |-> f,
              err |-> NewError("VALIDATION_ERROR",
                          "Directory " \o projectPath \o " already exists")]
        ELSE IF MkdirAllFails(f, projectPath)
        THEN [path |-> "", fs |-> f,
              err |-> WrapError("FILESYSTEM_ERROR",
                          "failed to create project directory",
                          "not a directory")]
        ELSE [path |-> projectPath, fs |-> MkdirAll(f, projectPath),
              err |-> NoError]

\* prepareProjectDirectory: the path it returns, its error, the file system after
prepareProjectDirectory(c, f) ==
    IF c.Here THEN prepareInPlace(c, f) ELSE prepareNewDirectory(c, f)

\* the loop of processTemplates over dirs, from index i on
RECURSIVE MakeDirs(_, _, _, _)
MakeDirs(f, projectPath, dirs, i) ==
    IF i > Len(dirs) THEN [fs |-> f, err |-> NoError]
    ELSE LET dirPath == Join(projectPath, dirs[i])
         IN  IF MkdirAllFails(f, dirPath)
             THEN [fs |-> f,
                   err |-> WrapError("FILESYSTEM_ERROR",
                               "failed to create directory", "not a directory")]
             ELSE MakeDirs(MkdirAll(f, dirPath), projectPath, dirs, i + 1)

\* the first loop over processedTemplates, visiting the names in `order`
RECURSIVE WriteTemplates(_, _, _, _, _)
WriteTemplates(f, projectPath, processed, order, i) ==
    IF i > Len(order) THEN [fs |-> f, err |-> NoError]
    ELSE LET templatePath ==
                 Join(Join(Join(projectPath, ".specify"), "templates"), order[i])
             f1 == MkdirAll(f, Dir(templatePath))
         IN  IF MkdirAllFails(f, Dir(templatePath))
             THEN [fs |-> f,
                   err |-> WrapError("FILESYSTEM_ERROR",
                               "failed to create template directory",
                               "not a directory")]
             ELSE IF WriteFileFails(f1, templatePath)
             THEN [fs |-> f1,
                   err |-> WrapError("FILESYSTEM_ERROR",
                               "failed to write template", "is a directory")]
             ELSE WriteTemplates(
                      WriteFile(f1, templatePath, processed[order[i]]),
                      projectPath, processed, order, i + 1)

\* the name under which a command template is copied to the assistant folder
CommandFileName(templateName, asst) == TrimPrefix(templateName, "commands/")

\* the second loop over processedTemplates: the command templates are copied
\* to the assistant folder
RECURSIVE WriteCommands(_, _, _, _, _, _)
WriteCommands(f, projectPath, asst, processed, order, i) ==
    IF i > Len(order) THEN [fs |-> f, err |-> NoError]
    ELSE IF ~HasPrefix(order[i], "commands/")
    THEN WriteCommands(f, projectPath, asst, processed, order, i + 1)
    ELSE LET commandName == CommandFileName(order[i], asst)
             commandPath == Join(Join(projectPath, asst.Directory), commandName)
         IN  IF WriteFileFails(f, commandPath)
             THEN [fs |-> f,
                   err |-> WrapError("FILESYSTEM_ERROR",
                               "failed to write command template",
                               "is a directory")]
             ELSE WriteCommands(WriteFile(f, commandPath, processed[order[i]]),
                                projectPath, asst, processed, order, i + 1)

\* processTemplates: every (file system, error) it can end with
processTemplates(f, projectPath, asst, st, a) ==
    LET made == MakeDirs(f, projectPath,
                         <<".specify/templates", ".specify/templates/commands",
                           asst.Directory>>, 1)
    IN  IF made.err # NoError THEN {made}
        ELSE UNION {
               IF all.err # NoError THEN {[fs |-> made.fs, err |-> all.err]}
               ELSE UNION {
                      LET w == WriteTemplates(made.fs, projectPath,
                                              all.processed, o1, 1)
                      IN  IF w.err # NoError THEN {w}
                          ELSE {WriteCommands(w.fs, projectPath, asst,
                                              all.processed, o2, 1) :
                                   o2 \in Enumerations(DOMAIN all.processed)}
                      : o1 \in Enumerations(DOMAIN all.processed)}
               : all \in ProcessAllTemplates(a, asst, st)}

\* the loop of generateScripts over generatedScripts, visited in `order`
RECURSIVE WriteScripts(_, _, _, _, _, _)
WriteScripts(f, projectPath, st, scripts, order, i) ==
    IF i > Len(order) THEN [fs |-> f, err |-> NoError]
    ELSE LET scriptsDir == Join(Join(projectPath, ".specify"), "scripts")
             scriptPath == Join(scriptsDir, order[i] \o GetScriptExtension(st))
             f1 == MkdirAll(f, scriptsDir)
         IN  IF MkdirAllFails(f, scriptsDir)
             THEN [fs |-> f,
                   err |-> WrapError("FILESYSTEM_ERROR",
                               "failed to create scripts directory",
                               "not a directory")]
             ELSE IF WriteFileFails(f1, scriptPath)
             THEN [fs |-> f1,
                   err |-> WrapError("FILESYSTEM_ERROR",
                               "failed to write script", "is a directory")]
             ELSE WriteScripts(
                      WriteFile(f1, scriptPath, scripts[order[i]]),
                      projectPath, st, scripts, order, i + 1)

\* a generateScripts that removes the project's .specify tree when the
\* generator fails
generateScriptsRollingBack(f, projectPath, asst, st, a) ==
    UNION {
      IF all.err # NoError
      THEN {[fs |-> [p \in {q \in DOMAIN f :
                              ~HasPrefix(q, Join(projectPath, ".specify"))}
                       |-> f[p]],
             err |-> all.err]}
      ELSE {WriteScripts(f, projectPath, st, all.scripts, o, 1) :
               o \in Enumerations(DOMAIN all.scripts)}
      : all \in GenerateAllScripts(a, asst, st)}

\* generateScripts: every (file system, error) it can end with
generateScripts(f, projectPath, asst, st, a) ==
    UNION {
      IF all.err # NoError THEN {[fs |-> f, err |-> all.err]}
      ELSE {WriteScripts(f, projectPath, st, all.scripts, o, 1) :
               o \in Enumerations(DOMAIN all.scripts)}
      : all \in GenerateAllScripts(a, asst, st)}

\* an initializeGit that does not look for an existing .git
initializeGitWithoutMarkerCheck(f, projectPath, noGit, path) ==
    IF noGit THEN {[fs |-> f, err |-> NoError, calls |-> <<>>]}
    ELSE
        IF "git" \notin path
        THEN {[fs |-> f, calls |-> <<"init">>,
               err |-> WrapError("GIT_ERROR",
                           "failed to initialize git repository",
                           "exec: \"git\": executable file not found in $PATH")]}
        ELSE LET withGit == MkdirAll(f, Join(projectPath, ".git"))
             IN  {[fs |-> f, calls |-> <<"init">>,
                   err |-> WrapError("GIT_ERROR",
                               "failed to initialize git repository",
                               "exit status 128")],
                  [fs |-> withGit, calls |-> <<"init", "add">>,
                   err |-> WrapError("GIT_ERROR", "failed to add files to git",
                               "exit status 128")],
                  [fs |-> withGit, calls |-> <<"init", "add", "commit">>,
                   err |-> WrapError("GIT_ERROR",
                               "failed to create initial commit",
                               "exit status 128")],
                  [fs |-> withGit, calls |-> <<"init", "add", "commit">>,
                   err |-> NoError]}

\* initializeGit: every (error, file system after, git commands run) it can
\* end with. Nothing is run with --no-git or when .git exists. Otherwise
\* git init, git add . and git commit run in turn and the first that fails
\* ends the function: without git on PATH the first command cannot start,
\* with git any of the three can exit with an error (git commit does so when
\* git knows no user identity). git init creates .git when it succeeds.
initializeGit(f, projectPath, noGit, path) ==
    IF noGit THEN {[fs |-> f, err |-> NoError, calls |-> <<>>]}
    ELSE IF Stat(f, Join(projectPath, ".git"))
    THEN {[fs |-> f, err |-> NoError, calls |-> <<>>]}
    ELSE
        IF "git" \notin path
        THEN {[fs |-> f, calls |-> <<"init">>,
               err |-> WrapError("GIT_ERROR",
                           "failed to initialize git repository",
                           "exec: \"git\": executable file not found in $PATH")]}
        ELSE LET withGit == MkdirAll(f, Join(projectPath, ".git"))
             IN  {[fs |-> f, calls |-> <<"init">>,
                   err |-> WrapError("GIT_ERROR",
                               "failed to initialize git repository",
                               "exit status 128")],
                  [fs |-> withGit, calls |-> <<"init", "add">>,
                   err |-> WrapError("GIT_ERROR", "failed to add files to git",
                               "exit status 128")],
                  [fs |-> withGit, calls |-> <<"init", "add", "commit">>,
                   err |-> WrapError("GIT_ERROR",
                               "failed to create initial commit",
                               "exit status 128")],
                  [fs |-> withGit, calls |-> <<"init", "add", "commit">>,
                   err |-> NoError]}

-----------------------------------------------------------------------------
(* the init command: what a run is started with *)

DirEntry == [kind |-> "dir", data |-> ""]
FileEntry(data) == [kind |-> "file", data |-> data]
EmptyFS == [p \in {} |-> DirEntry]

\* the working directory before the run: empty, or holding some of these
InitialFileSystems ==
    {EmptyFS,
     "proj" :> DirEntry,
     "README.md" :> FileEntry("# readme"),
     ".git" :> DirEntry,
     ".specify" :> FileEntry("x"),
     ".claude" :> FileEntry("x"),
     ("proj" :> DirEntry) @@ ("README.md" :> FileEntry("# readme"))}

ArgLists == {<<>>, <<"proj">>}
AIFlags == {"", "claude", "gemini", "copilot", "bogus"}
\* the assistants the user of the interactive selector picks among
UserPicks == {"claude", "gemini", "copilot"}
ScriptFlags == {"", "sh", "ps", "bash"}

CLITools == {AIAssistants[k].CLITool : k \in DOMAIN AIAssistants} \ {""}
Paths == {{}, {"git"}, CLITools, CLITools \cup {"git"}}

TemplateAssets ==
    ("commands/specify.md" :> "{SCRIPT} $ARGUMENTS") @@
    ("spec-template.md"    :> "# __AGENT__")

ScriptText == "__AGENT__ {SCRIPT}"

\* the script assets under directories dirSh and dirPs
ScriptAssets(dirSh, dirPs) ==
    [k \in {dirSh \o "/" \o ScriptNames[i] \o ".sh" : i \in 1..Len(ScriptNames)}
        \cup {dirPs \o "/" \o ScriptNames[i] \o ".ps1" : i \in 1..Len(ScriptNames)}
      |-> ScriptText]

\* the embedded bundle: the documented tree (scripts/bash, scripts/powershell),
\* or one whose script directories carry the short keys
AssetBundles ==
    {[Templates |-> TemplateAssets, Scripts |-> ScriptAssets("bash", "powershell")],
     [Templates |-> TemplateAssets, Scripts |-> ScriptAssets("sh", "ps")]}

NoRequest == [assistant |-> "", scriptType |-> ""]
NoOutput ==
    [op |-> "", name |-> "", input |-> "", content |-> "", lookup |-> "",
     processed |-> EmptyFS, err |-> NoError]

Init ==
    /\ pc = <<"args", "">>
    /\ \E here, force, noGit, ignoreTools \in BOOLEAN :
       \E ai \in AIFlags, script \in ScriptFlags :
          cfg = [Name |-> "", Path |-> "", AIAssistant |-> ai,
                 ScriptType |-> script, NoGit |-> noGit, Force |-> force,
                 IgnoreTools |-> ignoreTools, Here |-> here]
    /\ args \in ArgLists
    /\ fs \in InitialFileSystems
    /\ fs0 = fs
    /\ env = [looked |-> FALSE, path |-> {}]
    /\ assets = [loaded |-> FALSE, Templates |-> EmptyFS, Scripts |-> EmptyFS]
    /\ steps = <<>>
    /\ clock = 1
    /\ assistant = ZeroAssistant
    /\ result = [returned |-> FALSE, err |-> NoError]
    /\ gitCalls = <<>>
    /\ req = NoRequest
    /\ out = NoOutput
    /\ TrackerAtRest

-----------------------------------------------------------------------------
(* the init command: cobra, then runInit step by step *)

StepList ==
    <<[key |-> "validate",  label |-> "Validate configuration"],
      [key |-> "assistant", label |-> "Select AI assistant"],
      [key |-> "script",    label |-> "Select script type"],
      [key |-> "tools",     label |-> "Check required tools"],
      [key |-> "download",  label |-> "Prepare project directory"],
      [key |-> "extract",   label |-> "Setup embedded assets"],
      [key |-> "process",   label |-> "Process templates"],
      [key |-> "scripts",   label |-> "Generate scripts"],
      [key |-> "git",       label |-> "Initialize git repository"]>>

RECURSIVE AddAll(_, _)
AddAll(st, i) ==
    IF i > Len(StepList) THEN st
    ELSE AddAll(Add(st, StepList[i].key, StepList[i].label), i + 1)

\* cobra validates the positional arguments, the flags parsed, before RunE
CobraArgs ==
    /\ pc = <<"args", "">>
    /\ IF ArgsError(cfg, args) # ""
       THEN /\ result' = [returned |-> TRUE,
                          err |-> NewError("", ArgsError(cfg, args))]
            /\ pc' = <<"exit", "args">>
       ELSE /\ pc' = <<"runE", "">>
            /\ UNCHANGED result
    /\ UNCHANGED <<cfg, args, fs, env, assets, steps, clock, assistant,
                   gitCalls, fs0, req, out>>
    /\ UNCHANGED lockVars

\* RunE up to the first tracker.Start of runInit: the name, the nine Adds
RunE ==
    /\ pc = <<"runE", "">>
    /\ cfg' = IF Len(args) > 0 THEN [cfg EXCEPT !.Name = args[1]] ELSE cfg
    /\ steps' = AddAll(steps, 1)
    /\ pc' = <<"start", "validate">>
    /\ UNCHANGED <<args, fs, env, assets, clock, assistant, result, gitCalls,
                   fs0, req, out>>
    /\ UNCHANGED lockVars

\* tracker.Start(key, "") of the step the run has come to
StartStep ==
    /\ pc[1] = "start"
    /\ steps' = update(steps, pc[2], StatusRunning, "", clock)
    /\ clock' = clock + 1
    /\ pc' = <<"do", pc[2]>>
    /\ UNCHANGED <<cfg, args, fs, env, assets, assistant, result, gitCalls,
                   fs0, req, out>>
    /\ UNCHANGED lockVars

\* tracker.Error(key, err.Error()) and the same step again, without return
FailsAndRetries(key, err) ==
    /\ steps' = update(steps, key, StatusError, ErrorText(err), clock)
    /\ clock' = clock + 1
    /\ UNCHANGED result
    /\ pc' = <<"start", key>>

\* return err with the tracker.Error left out
FailsUnmarked(key, err) ==
    /\ steps' = steps
    /\ clock' = clock
    /\ result' = [returned |-> TRUE, err |-> err]
    /\ pc' = <<"exit", key>>

\* tracker.Error(key, err.Error()); return err
Fails(key, err) ==
    /\ steps' = update(steps, key, StatusError, ErrorText(err), clock)
    /\ clock' = clock + 1
    /\ result' = [returned |-> TRUE, err |-> err]
    /\ pc' = <<"exit", key>>

\* on to the next step with the tracker.Complete left out
CompletesUnmarked(key, detail, next) ==
    /\ steps' = steps
    /\ clock' = clock
    /\ pc' = <<"start", next>>
    /\ UNCHANGED result

\* tracker.Complete(key, detail), and on to the next step
Completes(key, detail, next) ==
    /\ steps' = update(steps, key, StatusDone, detail, clock)
    /\ clock' = clock + 1
    /\ pc' = <<"start", next>>
    /\ UNCHANGED result

DoValidate ==
    /\ pc = <<"do", "validate">>
    /\ LET v == validateConfig(cfg, fs)
       IN  /\ cfg' = v.cfg
           /\ IF v.err # NoError THEN Fails("validate", v.err)
              ELSE Completes("validate", "Configuration valid", "assistant")
    /\ UNCHANGED <<args, fs, env, assets, assistant, gitCalls, fs0, req, out>>
    /\ UNCHANGED lockVars

DoAssistant ==
    /\ pc = <<"do", "assistant">>
    /\ \E sel \in SelectorRun(AIChoices \cap UserPicks) :
         LET r == selectAssistant(cfg, sel)
         IN  IF r.err # NoError
             THEN /\ Fails("assistant", r.err)
                  /\ UNCHANGED <<cfg, assistant>>
             ELSE /\ assistant' = r.assistant
                  /\ cfg' = [cfg EXCEPT !.AIAssistant = r.assistant.Key]
                  /\ Completes("assistant", "Selected " \o r.assistant.Name,
                               "script")
    /\ UNCHANGED <<args, fs, env, assets, gitCalls, fs0, req, out>>
    /\ UNCHANGED lockVars

DoScript ==
    /\ pc = <<"do", "script">>
    /\ \E sel \in SelectorRun(DOMAIN ScriptTypes) :
         LET r == selectScriptType(cfg, sel)
         IN  IF r.err # NoError
             THEN /\ Fails("script", r.err)
                  /\ UNCHANGED cfg
             ELSE /\ cfg' = [cfg EXCEPT !.ScriptType = r.scriptType]
                  /\ Completes("script",
                               "Selected " \o ScriptTypeName(r.scriptType),
                               "tools")
    /\ UNCHANGED <<args, fs, env, assets, assistant, gitCalls, fs0, req, out>>
    /\ UNCHANGED lockVars

\* PATH is what it is from the start of the run; the model fixes it when the
\* run first comes to look at it
DoTools ==
    /\ pc = <<"do", "tools">>
    /\ \E p \in Paths : env' = [looked |-> TRUE, path |-> p]
    /\ LET err == checkRequiredTools(assistant, cfg.IgnoreTools, env'.path)
       IN  IF err # NoError THEN Fails("tools", err)
           ELSE Completes("tools", "All tools available", "download")
    /\ UNCHANGED <<cfg, args, fs, assets, assistant, gitCalls, fs0, req, out>>
    /\ UNCHANGED lockVars

DoPrepare ==
    /\ pc = <<"do", "download">>
    /\ LET r == prepareProjectDirectory(cfg, fs)
       IN  /\ fs' = r.fs
           /\ IF r.err # NoError
              THEN /\ Fails("download", r.err)
                   /\ UNCHANGED cfg
              ELSE /\ cfg' = [cfg EXCEPT !.Path = r.path]
                   /\ Completes("download", "Project directory prepared",
                                "extract")
    /\ UNCHANGED <<args, env, assets, assistant, gitCalls, fs0, req, out>>
    /\ UNCHANGED lockVars

DoExtract ==
    /\ pc = <<"do", "extract">>
    /\ Completes("extract", "Using embedded assets", "process")
    /\ UNCHANGED <<cfg, args, fs, env, assets, assistant, gitCalls, fs0, req, out>>
    /\ UNCHANGED lockVars

\* The bundle is embedded in the binary; the model fixes it at the first
\* LoadEmbeddedAssets of the run.
DoProcess ==
    /\ pc = <<"do", "process">>
    /\ \E b \in AssetBundles :
         assets' = [loaded |-> TRUE, Templates |-> b.Templates,
                    Scripts |-> b.Scripts]
    /\ \E r \in processTemplates(fs, cfg.Path, assistant, cfg.ScriptType, assets') :
         /\ fs' = r.fs
         /\ IF r.err # NoError THEN Fails("process", r.err)
            ELSE Completes("process", "Templates processed", "scripts")
    /\ UNCHANGED <<cfg, args, env, assistant, gitCalls, fs0, req, out>>
    /\ UNCHANGED lockVars

DoScripts ==
    /\ pc = <<"do", "scripts">>
    /\ \E r \in generateScripts(fs, cfg.Path, assistant, cfg.ScriptType, assets) :
         /\ fs' = r.fs
         /\ IF r.err # NoError THEN Fails("scripts", r.err)
            ELSE Completes("scripts", "Scripts generated", "git")
    /\ UNCHANGED <<cfg, args, env, assets, assistant, gitCalls, fs0, req, out>>
    /\ UNCHANGED lockVars

\* the git step, and the return of runInit after showSuccessMessage
DoGit ==
    /\ pc = <<"do", "git">>
    /\ \E r \in initializeGit(fs, cfg.Path, cfg.NoGit, env.path) :
           /\ fs' = r.fs
           /\ gitCalls' = gitCalls \o r.calls
           /\ IF r.err # NoError THEN Fails("git", r.err)
              ELSE /\ steps' = IF ~cfg.NoGit
                               THEN update(steps, "git", StatusDone,
                                           "Git repository initialized", clock)
                               ELSE update(steps, "git", StatusSkipped,
                                           "Skipped", clock)
                   /\ clock' = clock + 1
                   /\ result' = [returned |-> TRUE, err |-> NoError]
                   /\ pc' = <<"exit", "git">>
    /\ UNCHANGED <<cfg, args, env, assets, assistant, fs0, req, out>>
    /\ UNCHANGED lockVars

Next ==
    \/ CobraArgs
    \/ RunE
    \/ StartStep
    \/ DoValidate
    \/ DoAssistant
    \/ DoScript
    \/ DoTools
    \/ DoPrepare
    \/ DoExtract
    \/ DoProcess
    \/ DoScripts
    \/ DoGit

Spec == Init /\ [][Next]_vars

-----------------------------------------------------------------------------
(* the template processor on its own: a Processor is built over a store of *)
(* templates and asked for one template, twice over, or for all            *)

MaxTemplateLines == 2

\* lines whose placeholder tokens stand apart
SeparateLines ==
    {"# $ARGUMENTS", "prompt = \"\"\"", "\"\"\"", "__AGENT__ {SCRIPT} {{args}}"}

\* lines with one placeholder token inside another
NestedLines == {"{SCR{SCRIPT}IPT}", "__AGE{SCRIPT}NT__"}

LinePool == SeparateLines \cup NestedLines

TemplateTexts ==
    {JoinLines(ls) : ls \in UNION {[1..n -> LinePool] : n \in 1..MaxTemplateLines}}

TemplateNames == {"commands/specify.md", "spec-template.md"}

\* stores of no template, of the command template alone, and of both: the
\* command template carries the text under study
TemplateStores ==
    {[Templates |-> [n \in S |-> IF n = "commands/specify.md" THEN t
                                  ELSE "# __AGENT__"],
      Scripts |-> EmptyFS] :
        S \in {{}, {"commands/specify.md"}, TemplateNames}, t \in TemplateTexts}

IdleRun ==
    /\ cfg = [Name |-> "", Path |-> "", AIAssistant |-> "", ScriptType |-> "",
              NoGit |-> FALSE, Force |-> FALSE, IgnoreTools |-> FALSE,
              Here |-> FALSE]
    /\ args = <<>>
    /\ fs = EmptyFS
    /\ fs0 = EmptyFS
    /\ env = [looked |-> FALSE, path |-> {}]
    /\ steps = <<>>
    /\ clock = 1
    /\ assistant = ZeroAssistant
    /\ result = [returned |-> FALSE, err |-> NoError]
    /\ gitCalls = <<>>

\* templates.NewProcessor(assets, assistant, scriptType)
InitTemplate ==
    /\ pc = <<"processor", "new">>
    /\ \E b \in TemplateStores :
         assets = [loaded |-> TRUE, Templates |-> b.Templates, Scripts |-> b.Scripts]
    /\ \E k \in DOMAIN AIAssistants, st \in DOMAIN ScriptTypes :
         req = [assistant |-> k, scriptType |-> st]
    /\ out = NoOutput
    /\ IdleRun
    /\ TrackerAtRest

\* p.ProcessTemplate(name), for a name of the store or not
CallProcessTemplate ==
    /\ pc = <<"processor", "new">>
    /\ \E name \in TemplateNames :
       \E r \in ProcessTemplate(assets, name, AIAssistants[req.assistant],
                                req.scriptType) :
          out' = [NoOutput EXCEPT !.op = "ProcessTemplate", !.name = name,
                                  !.input = GetTemplate(assets, name).content,
                                  !.content = r.content, !.err = r.err]
    /\ pc' = <<"processor", "processed">>
    /\ UNCHANGED <<assets, req, runVars>>
    /\ UNCHANGED lockVars

\* the substitution once more, on the text ProcessTemplate returned
CallSubstituteAgain ==
    /\ pc = <<"processor", "processed">>
    /\ out.err = NoError
    /\ \E c \in SubstituteOutcomes(out.content, AIAssistants[req.assistant],
                                   req.scriptType) :
          out' = [out EXCEPT !.op = "SubstituteAgain", !.input = out.content,
                             !.content = c]
    /\ pc' = <<"processor", "again">>
    /\ UNCHANGED <<assets, req, runVars>>
    /\ UNCHANGED lockVars

\* p.ProcessAllTemplates()
CallProcessAllTemplates ==
    /\ pc = <<"processor", "new">>
    /\ \E r \in ProcessAllTemplates(assets, AIAssistants[req.assistant],
                                    req.scriptType) :
          out' = [NoOutput EXCEPT !.op = "ProcessAllTemplates",
                                  !.processed = r.processed, !.err = r.err]
    /\ pc' = <<"processor", "all">>
    /\ UNCHANGED <<assets, req, runVars>>
    /\ UNCHANGED lockVars

NextTemplate ==
    \/ CallProcessTemplate
    \/ CallSubstituteAgain
    \/ CallProcessAllTemplates

SpecTemplate == InitTemplate /\ [][NextTemplate]_vars

-----------------------------------------------------------------------------
(* the script generator on its own *)

\* a bundle's scripts without those of base name `missing` ("" for none)
ScriptsWithout(scripts, missing) ==
    [k \in {x \in DOMAIN scripts :
              missing = "" \/ ~Contains(x, "/" \o missing \o ".")}
       |-> scripts[k]]

ScriptStores ==
    {[Templates |-> EmptyFS, Scripts |-> ScriptsWithout(b.Scripts, m)] :
        b \in AssetBundles,
        m \in {""} \cup {ScriptNames[i] : i \in 1..Len(ScriptNames)}}

\* scripts.NewGenerator(assets, assistant, scriptType)
InitScript ==
    /\ pc = <<"generator", "new">>
    /\ \E b \in ScriptStores :
         assets = [loaded |-> TRUE, Templates |-> b.Templates, Scripts |-> b.Scripts]
    /\ \E k \in DOMAIN AIAssistants, st \in DOMAIN ScriptTypes :
         req = [assistant |-> k, scriptType |-> st]
    /\ out = NoOutput
    /\ IdleRun
    /\ TrackerAtRest

\* g.GenerateScript(name)
CallGenerateScript ==
    /\ pc = <<"generator", "new">>
    /\ \E i \in 1..Len(ScriptNames) :
       \E r \in GenerateScript(assets, ScriptNames[i],
                               AIAssistants[req.assistant], req.scriptType) :
          out' = [NoOutput EXCEPT !.op = "GenerateScript",
                                  !.name = ScriptNames[i], !.lookup = r.lookup,
                                  !.content = r.content, !.err = r.err]
    /\ pc' = <<"generator", "generated">>
    /\ UNCHANGED <<assets, req, runVars>>
    /\ UNCHANGED lockVars

\* g.GenerateAllScripts()
CallGenerateAllScripts ==
    /\ pc = <<"generator", "new">>
    /\ \E r \in GenerateAllScripts(assets, AIAssistants[req.assistant],
                                   req.scriptType) :
          out' = [NoOutput EXCEPT !.op = "GenerateAllScripts",
                                  !.processed = r.scripts, !.err = r.err]
    /\ pc' = <<"generator", "all">>
    /\ UNCHANGED <<assets, req, runVars>>
    /\ UNCHANGED lockVars

\* generateScripts("proj", assistant, scriptType) on the generator's assets
CallGenerateScripts ==
    /\ pc = <<"generator", "new">>
    /\ \E r \in generateScripts(fs, "proj", AIAssistants[req.assistant],
                                req.scriptType, assets) :
          /\ fs' = r.fs
          /\ out' = [NoOutput EXCEPT !.op = "generateScripts", !.err = r.err]
    /\ pc' = <<"generator", "written">>
    /\ UNCHANGED <<cfg, args, env, assets, steps, clock, assistant, result,
                   gitCalls, fs0, req>>
    /\ UNCHANGED lockVars

NextScript ==
    \/ CallGenerateScript
    \/ CallGenerateAllScripts
    \/ CallGenerateScripts

SpecScript == InitScript /\ [][NextScript]_vars

-----------------------------------------------------------------------------
(* the step tracker on its own: any sequence of its operations *)

MaxTrackerOps == 4

TrackerKeys == {"a", "b"}
TrackerDetails == {"", "d"}

\* the label Add gives the step of a key
TrackerLabel(key) == "Step " \o key

\* &config.StepTracker{}
InitTracker ==
    /\ pc = <<"tracker", "new">>
    /\ assets = [loaded |-> FALSE, Templates |-> EmptyFS, Scripts |-> EmptyFS]
    /\ req = NoRequest
    /\ out = NoOutput
    /\ IdleRun
    /\ TrackerAtRest

\* one more operation on the tracker, at a later time
TrackerCalled(op, key, detail) ==
    /\ pc[1] = "tracker"
    /\ clock <= MaxTrackerOps
    /\ clock' = clock + 1
    /\ pc' = <<"tracker", "used">>
    /\ out' = [NoOutput EXCEPT !.op = op, !.name = key, !.input = detail]
    /\ UNCHANGED <<cfg, args, fs, env, assets, assistant, result, gitCalls,
                   fs0, req>>
    /\ UNCHANGED lockVars

TrackerAdd ==
    \E key \in TrackerKeys :
        /\ TrackerCalled("Add", key, "")
        /\ steps' = Add(steps, key, TrackerLabel(key))

TrackerStart ==
    \E key \in TrackerKeys, detail \in TrackerDetails :
        /\ TrackerCalled("Start", key, detail)
        /\ steps' = update(steps, key, StatusRunning, detail, clock)

TrackerComplete ==
    \E key \in TrackerKeys, detail \in TrackerDetails :
        /\ TrackerCalled("Complete", key, detail)
        /\ steps' = update(steps, key, StatusDone, detail, clock)

TrackerError ==
    \E key \in TrackerKeys, detail \in TrackerDetails :
        /\ TrackerCalled("Error", key, detail)
        /\ steps' = update(steps, key, StatusError, detail, clock)

TrackerSkip ==
    \E key \in TrackerKeys, detail \in TrackerDetails :
        /\ TrackerCalled("Skip", key, detail)
        /\ steps' = update(steps, key, StatusSkipped, detail, clock)

NextTracker ==
    \/ TrackerAdd
    \/ TrackerStart
    \/ TrackerComplete
    \/ TrackerError
    \/ TrackerSkip

SpecTracker == InitTracker /\ [][NextTracker]_vars

-----------------------------------------------------------------------------
(* cmd: the check command, tool by tool *)

\* checkTool: exec.LookPath finds the tool
checkTool(tool, path) == tool \in path

\* the assistants runCheck goes through
assistantTools ==
    <<"claude", "gemini", "cursor", "qwen", "opencode", "codex", "kilocode",
      "auggie", "roo">>

\* a runCheck that reports the missing tools as an error
runCheckErrorOnMissing(results) ==
    IF \A t \in DOMAIN results : results[t] THEN NoError
    ELSE NewToolNotFound(CHOOSE t \in DOMAIN results : ~results[t])

\* what runCheck returns once it has displayed the results
runCheckError(results) == NoError

\* the executables a check can find: any of those it looks for
CheckPaths == SUBSET (CLITools \cup {"git"})

InitCheck ==
    /\ pc = <<"check", "git">>
    /\ env \in {[looked |-> TRUE, path |-> p] : p \in CheckPaths}
    /\ cfg = [Name |-> "", Path |-> "", AIAssistant |-> "", ScriptType |-> "",
              NoGit |-> FALSE, Force |-> FALSE, IgnoreTools |-> FALSE,
              Here |-> FALSE]
    /\ args = <<>>
    /\ fs = EmptyFS
    /\ fs0 = EmptyFS
    /\ steps = <<>>
    /\ clock = 1
    /\ assistant = ZeroAssistant
    /\ result = [returned |-> FALSE, err |-> NoError]
    /\ gitCalls = <<>>
    /\ assets = [loaded |-> FALSE, Templates |-> EmptyFS, Scripts |-> EmptyFS]
    /\ req = NoRequest
    /\ out = NoOutput
    /\ TrackerAtRest

\* results["git"] = checkTool("git", ...)
CheckGit ==
    /\ pc = <<"check", "git">>
    /\ out' = [out EXCEPT !.op = "runCheck",
                          !.processed = "git" :> checkTool("git", env.path)]
    /\ pc' = <<"check", assistantTools[1]>>
    /\ UNCHANGED <<assets, req, runVars>>
    /\ UNCHANGED lockVars

\* one turn of the loop over assistantTools
CheckAssistantTool ==
    \E i \in 1..Len(assistantTools) :
        /\ pc = <<"check", assistantTools[i]>>
        /\ LET tool == assistantTools[i]
           IN  out' = IF tool \in DOMAIN AIAssistants
                         /\ AIAssistants[tool].CLITool # ""
                      THEN [out EXCEPT !.processed =
                               (AIAssistants[tool].CLITool :>
                                   checkTool(AIAssistants[tool].CLITool, env.path))
                               @@ @]
                      ELSE out
        /\ pc' = IF i < Len(assistantTools)
                 THEN <<"check", assistantTools[i + 1]>>
                 ELSE <<"check", "display">>
        /\ UNCHANGED <<assets, req, runVars>>
        /\ UNCHANGED lockVars

\* the results are displayed, with the panel that fits, and runCheck returns
CheckDisplay ==
    /\ pc = <<"check", "display">>
    /\ out' = [out EXCEPT !.content =
                  IF \A t \in DOMAIN out.processed : out.processed[t]
                  THEN "All tools are properly installed!"
                  ELSE "Some tools are missing."]
    /\ result' = [returned |-> TRUE, err |-> runCheckError(out.processed)]
    /\ pc' = <<"exit", "check">>
    /\ UNCHANGED <<cfg, args, fs, env, assets, steps, clock, assistant,
                   gitCalls, fs0, req>>
    /\ UNCHANGED lockVars

NextCheck ==
    \/ CheckGit
    \/ CheckAssistantTool
    \/ CheckDisplay

SpecCheck == InitCheck /\ [][NextCheck]_vars

-----------------------------------------------------------------------------
(* the step tracker under its lock: the orchestrator's goroutine "w" calls  *)
(* the operations, a renderer's goroutine "r" calls GetSteps, and the       *)
(* attached callback runs inside the operation                              *)

MaxLockedOps == 2

\* the status Start, Complete, Error and Skip hand to update
OpStatus(op) ==
    CASE op = "Start" -> StatusRunning
      [] op = "Complete" -> StatusDone
      [] op = "Error" -> StatusError
      [] op = "Skip" -> StatusSkipped
      [] OTHER -> StatusPending

\* a GetSteps that does not take the lock
RLockAdmitsAnyway(m) == TRUE

\* sync.RWMutex.RLock returns when no writer holds the lock and no Lock call
\* is waiting for it
RLockAdmits(m) == ~m.writer /\ ~m.waiting

\* a maybeRefresh without the deferred recover
maybeRefreshWithoutRecover(cb) ==
    CASE cb = "nil" -> "skipped"
      [] cb = "panics" -> "panicked"
      [] OTHER -> "GetSteps"

\* maybeRefresh: how the call of the callback goes on for the operation
maybeRefresh(cb) ==
    CASE cb = "nil" -> "skipped"
      [] cb = "panics" -> "recovered"
      [] OTHER -> "GetSteps"

\* where goroutine g stands inside GetSteps ("" when it is not in GetSteps)
InGetSteps(g) ==
    IF g = "r"
    THEN (IF reader.at \in {"RLock", "copy", "RUnlock"} THEN reader.at ELSE "")
    ELSE CASE inCall.at = "cbRLock" -> "RLock"
           [] inCall.at = "cbCopy" -> "copy"
           [] inCall.at = "cbRUnlock" -> "RUnlock"
           [] OTHER -> ""

\* a new tracker, shared by the orchestrator and a renderer: no step, no
\* callback attached, the lock free
InitMutex ==
    /\ pc = <<"tracker", "shared">>
    /\ assets = [loaded |-> FALSE, Templates |-> EmptyFS, Scripts |-> EmptyFS]
    /\ req = NoRequest
    /\ out = NoOutput
    /\ IdleRun
    /\ TrackerAtRest

\* the orchestrator calls AttachRefresh(cb), with no callback, one that
\* panics, or one that renders the progress tree (ProgressRenderer.Render,
\* which reads GetSteps): st.mu.Lock()
AttachRefresh ==
    /\ inCall.at = "idle"
    /\ \E cb \in {"nil", "panics", "render"} :
          inCall' = [at |-> "Lock", op |-> "AttachRefresh", key |-> "",
                     detail |-> "", now |-> 0, cb |-> cb]
    /\ mu' = [mu EXCEPT !.waiting = TRUE]
    /\ UNCHANGED <<pc, cfg, args, fs, env, assets, steps, clock, assistant,
                   result, gitCalls, fs0, req, out, refreshCb, reader>>

\* AttachRefresh, the lock held: st.refreshCb = cb, and no maybeRefresh
StoreCallback ==
    /\ inCall.at = "locked"
    /\ inCall.op = "AttachRefresh"
    /\ refreshCb' = inCall.cb
    /\ inCall' = [inCall EXCEPT !.at = "Unlock"]
    /\ UNCHANGED <<pc, cfg, args, fs, env, assets, steps, clock, assistant,
                   result, gitCalls, fs0, req, out, mu, reader>>

\* the orchestrator calls Add, Start, Complete, Error or Skip: st.mu.Lock()
CallOperation ==
    /\ inCall.at = "idle"
    /\ clock <= MaxLockedOps
    /\ \E op \in {"Add", "Start", "Complete", "Error", "Skip"},
          key \in TrackerKeys :
          inCall' = [at |-> "Lock", op |-> op, key |-> key, detail |-> "d",
                     now |-> clock, cb |-> "nil"]
    /\ clock' = clock + 1
    /\ mu' = [mu EXCEPT !.waiting = TRUE]
    /\ UNCHANGED <<pc, cfg, args, fs, env, assets, steps, assistant, result,
                   gitCalls, fs0, req, out, refreshCb, reader>>

\* st.mu.Lock() returns: no writer and no reader holds the lock
AcquireLock ==
    /\ inCall.at = "Lock"
    /\ ~mu.writer
    /\ mu.readers = {}
    /\ mu' = [writer |-> TRUE, waiting |-> FALSE, readers |-> {}]
    /\ inCall' = [inCall EXCEPT !.at = "locked"]
    /\ UNCHANGED <<pc, cfg, args, fs, env, assets, steps, clock, assistant,
                   result, gitCalls, fs0, req, out, refreshCb, reader>>

\* update on a step it finds: st.Steps[i].Status = status
AssignStatus ==
    /\ inCall.at = "locked"
    /\ inCall.op \notin {"Add", "AttachRefresh"}
    /\ StepIndex(steps, inCall.key) # 0
    /\ steps' = [steps EXCEPT ![StepIndex(steps, inCall.key)].Status =
                                  OpStatus(inCall.op)]
    /\ inCall' = [inCall EXCEPT !.at = "status"]
    /\ UNCHANGED <<pc, cfg, args, fs, env, assets, clock, assistant, result,
                   gitCalls, fs0, req, out, mu, refreshCb, reader>>

\* update on a step it finds: the detail and the times
AssignDetailAndTimes ==
    /\ inCall.at = "status"
    /\ steps' = update(steps, inCall.key, OpStatus(inCall.op), inCall.detail,
                       inCall.now)
    /\ inCall' = [inCall EXCEPT !.at = "refresh"]
    /\ UNCHANGED <<pc, cfg, args, fs, env, assets, clock, assistant, result,
                   gitCalls, fs0, req, out, mu, refreshCb, reader>>

\* Add or update on a key with no step: st.Steps = append(st.Steps, Step{...})
AppendStep ==
    /\ inCall.at = "locked"
    /\ inCall.op # "AttachRefresh"
    /\ StepIndex(steps, inCall.key) = 0
    /\ steps' = IF inCall.op = "Add"
                THEN Add(steps, inCall.key, TrackerLabel(inCall.key))
                ELSE update(steps, inCall.key, OpStatus(inCall.op),
                            inCall.detail, inCall.now)
    /\ inCall' = [inCall EXCEPT !.at = "refresh"]
    /\ UNCHANGED <<pc, cfg, args, fs, env, assets, clock, assistant, result,
                   gitCalls, fs0, req, out, mu, refreshCb, reader>>

\* Add on a key that has a step: return, without maybeRefresh
ReturnExisting ==
    /\ inCall.at = "locked"
    /\ inCall.op = "Add"
    /\ StepIndex(steps, inCall.key) # 0
    /\ inCall' = [inCall EXCEPT !.at = "Unlock"]
    /\ UNCHANGED <<pc, cfg, args, fs, env, assets, steps, clock, assistant,
                   result, gitCalls, fs0, req, out, mu, refreshCb, reader>>

\* st.maybeRefresh(), the lock held: no callback or a recovered panic go on
\* to the return, a rendering callback enters GetSteps, and a panic that is
\* not recovered leaves the operation through its deferred Unlock
Refresh ==
    /\ inCall.at = "refresh"
    /\ LET went == maybeRefresh(refreshCb)
       IN  /\ inCall' = [inCall EXCEPT !.at =
                            CASE went = "GetSteps" -> "cbRLock"
                              [] went = "panicked" -> "panicked"
                              [] OTHER -> "Unlock"]
           /\ mu' = IF went = "panicked" THEN [mu EXCEPT !.writer = FALSE]
                    ELSE mu
    /\ UNCHANGED <<pc, cfg, args, fs, env, assets, steps, clock, assistant,
                   result, gitCalls, fs0, req, out, refreshCb, reader>>

\* the deferred st.mu.Unlock(), and the operation returns
ReleaseLock ==
    /\ inCall.at = "Unlock"
    /\ mu' = [mu EXCEPT !.writer = FALSE]
    /\ inCall' = [inCall EXCEPT !.at = "idle"]
    /\ UNCHANGED <<pc, cfg, args, fs, env, assets, steps, clock, assistant,
                   result, gitCalls, fs0, req, out, refreshCb, reader>>

\* the renderer calls GetSteps, once more when the last call has returned
CallGetSteps ==
    /\ reader.at \in {"idle", "returned"}
    /\ reader' = [at |-> "RLock", slice |-> <<>>]
    /\ UNCHANGED <<pc, cfg, args, fs, env, assets, steps, clock, assistant,
                   result, gitCalls, fs0, req, out, mu, refreshCb, inCall>>

\* GetSteps: st.mu.RLock() returns
GetStepsRLock(g) ==
    /\ InGetSteps(g) = "RLock"
    /\ RLockAdmits(mu)
    /\ mu' = [mu EXCEPT !.readers = @ \cup {g}]
    /\ IF g = "r"
       THEN reader' = [reader EXCEPT !.at = "copy"] /\ UNCHANGED inCall
       ELSE inCall' = [inCall EXCEPT !.at = "cbCopy"] /\ UNCHANGED reader
    /\ UNCHANGED <<pc, cfg, args, fs, env, assets, steps, clock, assistant,
                   result, gitCalls, fs0, req, out, refreshCb>>

\* GetSteps: steps := make([]Step, len(st.Steps)); copy(steps, st.Steps)
GetStepsCopy(g) ==
    /\ InGetSteps(g) = "copy"
    /\ IF g = "r"
       THEN reader' = [at |-> "RUnlock", slice |-> steps] /\ UNCHANGED inCall
       ELSE inCall' = [inCall EXCEPT !.at = "cbRUnlock"] /\ UNCHANGED reader
    /\ UNCHANGED <<pc, cfg, args, fs, env, assets, steps, clock, assistant,
                   result, gitCalls, fs0, req, out, mu, refreshCb>>

\* GetSteps: the deferred st.mu.RUnlock(), and return steps
GetStepsRUnlock(g) ==
    /\ InGetSteps(g) = "RUnlock"
    /\ mu' = [mu EXCEPT !.readers = @ \ {g}]
    /\ IF g = "r"
       THEN reader' = [reader EXCEPT !.at = "returned"] /\ UNCHANGED inCall
       ELSE inCall' = [inCall EXCEPT !.at = "Unlock"] /\ UNCHANGED reader
    /\ UNCHANGED <<pc, cfg, args, fs, env, assets, steps, clock, assistant,
                   result, gitCalls, fs0, req, out, refreshCb>>

NextMutex ==
    \/ AttachRefresh
    \/ StoreCallback
    \/ CallOperation
    \/ AcquireLock
    \/ AssignStatus
    \/ AssignDetailAndTimes
    \/ AppendStep
    \/ ReturnExisting
    \/ Refresh
    \/ ReleaseLock
    \/ CallGetSteps
    \/ \E g \in {"w", "r"} : GetStepsRLock(g)
    \/ \E g \in {"w", "r"} : GetStepsCopy(g)
    \/ \E g \in {"w", "r"} : GetStepsRUnlock(g)

SpecMutex == InitMutex /\ [][NextMutex]_vars

\* the same with the Go scheduler: a goroutine that can take a step takes
\* one, the orchestrator's and the renderer's alike
SpecMutexFair ==
    /\ InitMutex
    /\ [][NextMutex]_vars
    /\ WF_vars(\/ AttachRefresh
               \/ StoreCallback
               \/ CallOperation
               \/ AcquireLock
               \/ AssignStatus
               \/ AssignDetailAndTimes
               \/ AppendStep
               \/ ReturnExisting
               \/ Refresh
               \/ ReleaseLock
               \/ GetStepsRLock("w")
               \/ GetStepsCopy("w")
               \/ GetStepsRUnlock("w"))
    /\ WF_vars(\/ CallGetSteps
               \/ GetStepsRLock("r")
               \/ GetStepsCopy("r")
               \/ GetStepsRUnlock("r"))

-----------------------------------------------------------------------------
(* what the claims speak of *)

HasPlaceholder(text) == \E t \in Placeholders : Contains(text, t)

\* the texts left when the placeholder tokens are deleted one after the other,
\* in any order
Erased(text) ==
    RangeOutcomes({[content |-> text, left |-> Placeholders]},
                  [t \in Placeholders |-> ""])

\* The placeholder tokens of the text stand apart: deleting them leaves no
\* placeholder token, so none is nested in or split around another.
TokensApart(text) == \A c \in Erased(text) : ~HasPlaceholder(c)

Processed == out.op = "ProcessTemplate" /\ out.err = NoError

\* the template text the last ProcessTemplate call was given
TemplateText == GetTemplate(assets, out.name).content

\* whether line i of a TOML template lies outside every prompt = """ block:
\* the flag the scan carries before line i, the delimiter lines left aside
RECURSIVE InPromptBefore(_, _)
InPromptBefore(lines, i) ==
    IF i <= 1 THEN FALSE
    ELSE IF Contains(lines[i - 1], "prompt = \"\"\"") THEN TRUE
    ELSE IF InPromptBefore(lines, i - 1) /\ Contains(lines[i - 1], "\"\"\"")
    THEN FALSE
    ELSE InPromptBefore(lines, i - 1)

OutsidePrompt(lines, i) ==
    /\ ~InPromptBefore(lines, i)
    /\ ~Contains(lines[i], "\"\"\"")

\* C2: GenerateScript looks the script up under directory "bash" with
\* extension ".sh" for script type "sh", under "powershell" with ".ps1" for
\* "ps"; the asset key never starts with the short script-type key.
C2_ScriptLookupUnderLongDirectory ==
    out.op = "GenerateScript" =>
        /\ out.lookup =
              (IF req.scriptType = "sh"
               THEN "bash/" \o out.name \o ".sh"
               ELSE "powershell/" \o out.name \o ".ps1")
        /\ ~HasPrefix(out.lookup, req.scriptType \o "/")

\* C3: for a TOML assistant a line outside the prompt block keeps its
\* $ARGUMENTS and {{args}} byte for byte (lines that also carry __AGENT__ or
\* {SCRIPT} left aside).
C3_TomlOutsideBlockUntouched ==
    (Processed /\ AIAssistants[req.assistant].Format = FormatTOML) =>
        LET before == SplitLines(out.input)
            after  == SplitLines(out.content)
        IN  /\ Len(after) = Len(before)
            /\ \A i \in 1..Len(before) :
                 (/\ OutsidePrompt(before, i)
                  /\ ~Contains(before[i], "__AGENT__")
                  /\ ~Contains(before[i], "{SCRIPT}"))
                 => after[i] = before[i]

\* C4: the output of ProcessTemplate holds none of the four placeholder
\* tokens, for every assistant, both script types and any template.
C4_NoPlaceholderLeft == Processed => ~HasPlaceholder(out.content)

\* C5: every {SCRIPT} of a template is replaced by the setup-script path,
\* .specify/scripts/setup.sh or .specify/scripts/setup.ps1 by script type.
C5_ScriptPlaceholderBecomesSetupPath ==
    (Processed /\ TokensApart(out.input) /\ Contains(out.input, "{SCRIPT}")) =>
        Contains(out.content,
                 IF req.scriptType = "sh" THEN ".specify/scripts/setup.sh"
                 ELSE ".specify/scripts/setup.ps1")

\* C6: ProcessAllTemplates returns without error a map whose keys are exactly
\* the template names of the asset store.
C6_AllTemplateNamesProcessed ==
    out.op = "ProcessAllTemplates" =>
        /\ out.err = NoError
        /\ DOMAIN out.processed = DOMAIN assets.Templates

C6_Witness ==
    /\ out.op = "ProcessAllTemplates"
    /\ DOMAIN out.processed = TemplateNames
    /\ \E n \in TemplateNames : out.processed[n] # assets.Templates[n]

\* C7: the substitution applied to its own output returns it unchanged, for
\* every input text, assistant and script type.
C7_SubstitutionIdempotent ==
    out.op = "SubstituteAgain" => out.content = out.input

\* strings.TrimSuffix
TrimSuffix(s, suffix) ==
    IF Len(s) >= Len(suffix)
          /\ SubSeq(s, Len(s) - Len(suffix) + 1, Len(s)) = suffix
    THEN SubSeq(s, 1, Len(s) - Len(suffix))
    ELSE s

\* the command file name the claim gives a template for an assistant's format
NameByFormat(templateName, a) ==
    TrimSuffix(TrimPrefix(templateName, "commands/"), ".md") \o
        (CASE a.Format = FormatTOML -> ".toml"
           [] a.Format = FormatPrompt -> ".prompt.md"
           [] OTHER -> ".md")

\* the given name is taken in the working directory before the run
NameTaken == ~cfg.Here /\ Len(args) > 0 /\ Stat(fs0, Join(".", args[1]))

\* C1: once the templates are processed, the assistant's directory holds, for
\* every command template, a file named base.md, base.toml or base.prompt.md
\* by the assistant's format (specify.prompt.md for copilot).
C1_CommandFileNamedByFormat ==
    StepStatus(steps, "process") = StatusDone =>
        \A n \in DOMAIN assets.Templates :
            HasPrefix(n, "commands/") =>
                LET p == Join(Join(cfg.Path, assistant.Directory),
                              NameByFormat(n, assistant))
                IN  p \in DOMAIN fs /\ fs[p].kind = "file"

\* C8: with --here, the prepare-directory step succeeds exactly when the
\* current directory has no entries or --force is set; it succeeds with the
\* current directory as root and fails with a validation error.
C8_InPlaceSucceedsIffEmptyOrForce ==
    (cfg.Here /\ StepStatus(steps, "download") \in Terminal) =>
        IF ReadDir(fs0) = {} \/ cfg.Force
        THEN /\ StepStatus(steps, "download") = StatusDone
             /\ cfg.Path = "."
        ELSE /\ StepStatus(steps, "download") = StatusError
             /\ pc = <<"exit", "download">>
             /\ result.returned
             /\ result.err.Code = "VALIDATION_ERROR"
             /\ fs = fs0

C8_Witness ==
    /\ cfg.Here
    /\ cfg.Force
    /\ ReadDir(fs0) # {}
    /\ StepStatus(steps, "download") = StatusDone
    /\ cfg.Path = "."

\* C9: without --here, a name whose path already exists makes init fail with a
\* validation error at its validation step, --force set or not, and nothing
\* is written.
C9_TakenNameFailsDespiteForce ==
    (NameTaken /\ StepStatus(steps, "validate") \in Terminal) =>
        /\ StepStatus(steps, "validate") = StatusError
        /\ pc = <<"exit", "validate">>
        /\ result.returned
        /\ result.err.Code = "VALIDATION_ERROR"
        /\ fs = fs0

C9_Witness ==
    /\ NameTaken
    /\ cfg.Force
    /\ pc = <<"exit", "validate">>
    /\ result.err.Code = "VALIDATION_ERROR"

\* C10: the arguments are accepted exactly when one of a project name and
\* --here is given; with both or neither the command returns an error before
\* runInit, with no tracker step and the file system as it was.
C10_ExactlyOneOfNameAndHere ==
    pc # <<"args", "">> =>
        IF cfg.Here # (Len(args) > 0)
        THEN pc # <<"exit", "args">>
        ELSE /\ pc = <<"exit", "args">>
             /\ result.returned
             /\ result.err # NoError
             /\ steps = <<>>
             /\ fs = fs0

C10_Witness ==
    /\ cfg.Here
    /\ Len(args) > 0
    /\ pc = <<"exit", "args">>
    /\ result.err.Message = "cannot specify both project name and --here flag"

\* the run failed on the state of the directory: the name is taken, or the
\* current directory has entries and --force is not set
FailedOnDirectoryState ==
    /\ result.returned
    /\ \/ NameTaken /\ pc[1] = "exit" /\ pc[2] \in {"validate", "download"}
       \/ cfg.Here /\ ~cfg.Force /\ ReadDir(fs0) # {} /\ pc = <<"exit", "download">>

\* C11: when init fails on the state of the directory, the file system is as
\* it was before the run: nothing was created, nothing written.
C11_DirectoryFailureLeavesFilesAlone ==
    FailedOnDirectoryState =>
        /\ result.err.Code = "VALIDATION_ERROR"
        /\ fs = fs0

C11_Witness ==
    /\ FailedOnDirectoryState
    /\ cfg.Here
    /\ fs0 = ("README.md" :> FileEntry("# readme"))
    /\ fs = fs0
    /\ StepStatus(steps, "tools") = StatusDone

\* C12: the check-tools step fails exactly when tool checking is not disabled,
\* the assistant declares a CLI tool and that tool is not on PATH; git missing
\* alone, or --ignore-agent-tools, never makes it fail.
C12_ToolsStepFailsOnlyOnMissingAssistantTool ==
    StepStatus(steps, "tools") \in Terminal =>
        IF /\ ~cfg.IgnoreTools
           /\ assistant.CLITool # ""
           /\ assistant.CLITool \notin env.path
        THEN /\ StepStatus(steps, "tools") = StatusError
             /\ pc = <<"exit", "tools">>
             /\ result.err = NewToolNotFound(assistant.CLITool)
        ELSE StepStatus(steps, "tools") = StatusDone

C12_Witness ==
    /\ StepStatus(steps, "tools") = StatusDone
    /\ ~cfg.IgnoreTools
    /\ assistant.CLITool # ""
    /\ assistant.CLITool \in env.path
    /\ "git" \notin env.path

\* the target root held a .git marker when the run began (a new project
\* directory holds none)
MarkerAtRoot == cfg.Here /\ Stat(fs0, Join(".", ".git"))

\* C13: with --no-git the version-control step ends skipped, without error and
\* without a git command run; with a .git marker at the target root and no
\* --no-git it ends done, again without a git command run.
C13_GitStepSkippedOrAlreadySatisfied ==
    (StepStatus(steps, "git") \in Terminal /\ (cfg.NoGit \/ MarkerAtRoot)) =>
        /\ StepStatus(steps, "git") =
              (IF cfg.NoGit THEN StatusSkipped ELSE StatusDone)
        /\ gitCalls = <<>>
        /\ result.returned
        /\ result.err = NoError

C13_Witness ==
    /\ StepStatus(steps, "git") = StatusDone
    /\ ~cfg.NoGit
    /\ MarkerAtRoot
    /\ "git" \notin env.path
    /\ gitCalls = <<>>

\* C14: git is optional: a run without git on PATH, without --no-git and
\* without a .git marker, whose other steps all succeed, ends with no step in
\* error and returns no error.
C14_RunSucceedsWithoutGit ==
    (/\ pc = <<"exit", "git">>
     /\ "git" \notin env.path
     /\ ~cfg.NoGit
     /\ ~MarkerAtRoot) =>
        /\ result.err = NoError
        /\ \A i \in 1..Len(steps) : steps[i].Status # StatusError

\* C15: over any sequence of tracker operations, a step whose status is not
\* pending is not pending after the next operation either.
C15_NeverPendingAgain ==
    [][\A i \in 1..Len(steps) :
          steps[i].Status # StatusPending => steps'[i].Status # StatusPending]_vars

C15_Witness ==
    /\ out.op = "Add"
    /\ StepStatus(steps, out.name) = StatusDone
    /\ steps[StepIndex(steps, out.name)].Label = TrackerLabel(out.name)

\* the step came into the tracker by Add (update labels a step it appends
\* with the key)
AddedWithAdd(s) == s.Label = TrackerLabel(s.Key)

\* C16: for a step added with Add, Started is set at the first transition to
\* running and Ended at the first transition to done, error or skipped, and
\* neither changes afterwards, whatever operations follow.
C16_TimesSetOnceAtFirstTransition ==
    /\ [](\A i \in 1..Len(steps) :
            AddedWithAdd(steps[i]) =>
               /\ steps[i].Status = StatusRunning => steps[i].Started # 0
               /\ steps[i].Status \in Terminal => steps[i].Ended # 0
               /\ steps[i].Status = StatusPending =>
                     steps[i].Started = 0 /\ steps[i].Ended = 0)
    /\ [][\A i \in 1..Len(steps) :
            AddedWithAdd(steps[i]) =>
               /\ steps[i].Started # 0 => steps'[i].Started = steps[i].Started
               /\ steps[i].Ended # 0 => steps'[i].Ended = steps[i].Ended
               /\ (steps[i].Started = 0 /\ steps'[i].Status = StatusRunning)
                     => steps'[i].Started = clock
               /\ (steps[i].Ended = 0 /\ steps'[i].Status \in Terminal)
                     => steps'[i].Ended = clock]_vars

C16_Witness ==
    /\ out.op = "Start"
    /\ StepIndex(steps, out.name) # 0
    /\ LET s == steps[StepIndex(steps, out.name)]
       IN  /\ AddedWithAdd(s)
           /\ s.Status = StatusRunning
           /\ s.Started # 0
           /\ s.Ended > s.Started

\* C17: over any sequence of tracker operations a step that has reached done,
\* error or skipped never changes status again; in particular it never goes
\* back to running.
C17_StatusMonotonic ==
    [][\A i \in 1..Len(steps) :
          steps[i].Status \in Terminal => steps'[i].Status = steps[i].Status]_vars

\* C18: the check command returns nil whatever tools are available or missing;
\* availability only changes what it reports.
C18_CheckAlwaysSucceeds ==
    pc = <<"exit", "check">> =>
        /\ result.returned
        /\ result.err = NoError
        /\ DOMAIN out.processed = CLITools \cup {"git"}
        /\ \A t \in DOMAIN out.processed : out.processed[t] = (t \in env.path)
        /\ (out.content = "Some tools are missing.") <=>
              (\E t \in DOMAIN out.processed : t \notin env.path)

C18_Witness ==
    /\ pc = <<"exit", "check">>
    /\ result.err = NoError
    /\ "git" \notin env.path
    /\ "claude" \in env.path
    /\ "gemini" \notin env.path
    /\ out.content = "Some tools are missing."

\* C19: during a run of runInit at most one step is running, and a step has
\* left pending only when every step before it in the tracker's order is done,
\* in error or skipped.
C19_StepsRunOneAfterTheOther ==
    /\ Cardinality({i \in 1..Len(steps) : steps[i].Status = StatusRunning}) <= 1
    /\ \A i \in 1..Len(steps) :
          steps[i].Status # StatusPending =>
              \A j \in 1..(i - 1) : steps[j].Status \in Terminal

C19_Witness ==
    /\ pc = <<"do", "git">>
    /\ StepStatus(steps, "git") = StatusRunning
    /\ \A j \in 1..8 : steps[j].Status = StatusDone

\* C20: once a step of runInit is in error, runInit has returned that step's
\* error, every later step is still pending and stays so, and the failed step
\* is never started again (no step changes any more).
C20_FirstFailureEndsTheRun ==
    /\ [](\A i \in 1..Len(steps) :
            steps[i].Status = StatusError =>
                /\ result.returned
                /\ result.err # NoError
                /\ ErrorText(result.err) = steps[i].Detail
                /\ pc = <<"exit", steps[i].Key>>
                /\ \A j \in (i + 1)..Len(steps) :
                      steps[j].Status = StatusPending)
    /\ [][(\E i \in 1..Len(steps) : steps[i].Status = StatusError)
              => steps' = steps /\ result' = result]_vars

C20_Witness ==
    /\ StepStatus(steps, "download") = StatusError
    /\ StepStatus(steps, "tools") = StatusDone
    /\ StepStatus(steps, "extract") = StatusPending
    /\ result.returned
    /\ result.err # NoError

\* C21: the text applyReplacements returns does not depend on the order in
\* which the range over the replacements map visits the four placeholders:
\* for the text and assistant of every call, all orders end with one text.
C21_ReplacementOrderIrrelevant ==
    (out.op = "ProcessTemplate" /\ out.err = NoError) =>
        Cardinality(applyReplacements(out.input,
                                      AIAssistants[req.assistant])) = 1

\* the first script of ScriptNames whose asset the generator does not find
\* (0 when it finds them all)
FirstMissingScript ==
    LET missing == {i \in 1..Len(ScriptNames) :
                      ~GetScript(assets, GeneratorScriptPath(ScriptNames[i],
                                             req.scriptType)).exists}
    IN  IF missing = {} THEN 0
        ELSE CHOOSE i \in missing : \A j \in missing : i <= j

ScriptNameSet == {ScriptNames[i] : i \in 1..Len(ScriptNames)}

\* C22: GenerateAllScripts returns either a map of exactly the four script
\* names and no error, or, when a script asset is missing, no map and a
\* SCRIPT_ERROR whose cause is the asset-not-found error of that script; and
\* generateScripts, given that error, returns it and writes nothing.
C22_AllScriptsOrNone ==
    /\ out.op = "GenerateAllScripts" =>
          IF FirstMissingScript = 0
          THEN out.err = NoError /\ DOMAIN out.processed = ScriptNameSet
          ELSE /\ out.processed = <<>>
               /\ out.err.Code = "SCRIPT_ERROR"
               /\ out.err.Cause =
                     ErrorText(NewAssetNotFound(
                         "script template " \o ScriptNames[FirstMissingScript]))
    /\ out.op = "generateScripts" =>
          IF FirstMissingScript = 0
          THEN out.err = NoError
          ELSE out.err.Code = "SCRIPT_ERROR" /\ fs = EmptyFS

C22_Witness ==
    /\ out.op = "generateScripts"
    /\ FirstMissingScript = 3
    /\ out.err.Cause = "asset not found: script template setup-plan"
    /\ fs = EmptyFS

\* the paths this run created or rewrote
WrittenInRun == {p \in DOMAIN fs : p \notin DOMAIN fs0 \/ fs[p] # fs0[p]}

\* the files processTemplates writes for the templates of the bundle
TemplateFilesWritten ==
    \A n \in DOMAIN assets.Templates :
       /\ Stat(fs, Join(Join(Join(cfg.Path, ".specify"), "templates"), n))
       /\ HasPrefix(n, "commands/") =>
             Stat(fs, Join(Join(cfg.Path, assistant.Directory),
                           CommandFileName(n, assistant)))

\* C23: no step of a run removes or changes a directory or file the run wrote
\* before; when the template, script or git step has failed the project
\* directory is there, and after the template step the template and command
\* files are there too.
C23_FailureKeepsEarlierWrites ==
    /\ [][\A p \in WrittenInRun : p \in DOMAIN fs' /\ fs'[p] = fs[p]]_vars
    /\ [](\A k \in {"process", "scripts", "git"} :
            StepStatus(steps, k) = StatusError =>
                /\ IsDir(fs, cfg.Path)
                /\ k # "process" => TemplateFilesWritten)

C23_Witness ==
    /\ StepStatus(steps, "scripts") = StatusError
    /\ ~cfg.Here
    /\ fs0 = EmptyFS
    /\ TemplateFilesWritten
    /\ assistant.Key = "claude"
    /\ Cardinality(WrittenInRun) >= 6

\* C29: in every tracker state, whatever operations with whatever keys led to
\* it, a step that is done, in error or skipped has an Ended time and a step
\* that is running has a Started time.
C29_StatusHasItsTime ==
    \A i \in 1..Len(steps) :
       /\ steps[i].Status \in Terminal => steps[i].Ended # 0
       /\ steps[i].Status = StatusRunning => steps[i].Started # 0

\* the change the operation in progress makes is in the step list
ChangeApplied ==
    /\ StepIndex(steps, inCall.key) # 0
    /\ inCall.op # "Add" => StepStatus(steps, inCall.key) = OpStatus(inCall.op)

\* C24: with a callback attached that panics, no Add, Start, Complete, Error
\* or Skip is left by the panic: once the callback has run the change is
\* applied, the operation returns and releases the lock on its return, and
\* every operation that is called returns.
C24_PanickingCallbackIsHarmless ==
    /\ [](refreshCb = "panics" =>
            /\ inCall.at # "panicked"
            /\ (inCall.at = "Unlock" /\ inCall.op # "AttachRefresh") =>
                   ChangeApplied
            /\ inCall.at = "idle" => ~mu.writer)
    /\ [][(refreshCb = "panics" /\ inCall.at = "Unlock" /\ inCall' # inCall) =>
              (inCall'.at = "idle" /\ ~mu'.writer /\ steps' = steps)]_vars
    /\ (refreshCb = "panics" /\ inCall.at # "idle") ~> (inCall.at = "idle")

\* a second operation holds the lock after the first one's callback panicked
C24_Witness ==
    /\ refreshCb = "panics"
    /\ inCall.at = "locked"
    /\ inCall.op = "Complete"
    /\ inCall.now = 2
    /\ StepStatus(steps, inCall.key) = StatusRunning

\* the orchestrator is between two operations: the last one has returned and
\* the next one, if called, has not the lock yet
BetweenOperations == inCall.at \in {"idle", "Lock"}

\* C25: GetSteps, called by the renderer while the orchestrator applies
\* operations, copies the step list only between two complete operations and
\* returns it as it stood then; the slice it has returned is not changed by
\* what the orchestrator does afterwards.
C25_GetStepsReturnsWholeStates ==
    /\ [][(reader.at = "copy" /\ reader'.at = "RUnlock") =>
              (BetweenOperations /\ reader'.slice = steps /\ steps' = steps)]_vars
    /\ [][(reader.at \in {"RUnlock", "returned"} /\ reader'.at # "RLock") =>
              reader'.slice = reader.slice]_vars
    /\ [](mu.writer => mu.readers = {})

\* the renderer holds a slice taken after the first operation while the
\* orchestrator has gone on and is in the middle of the second
C25_Witness ==
    /\ reader.at = "returned"
    /\ Len(reader.slice) = 1
    /\ reader.slice[1].Status = StatusPending
    /\ inCall.at = "status"
    /\ steps[1].Status = StatusRunning
    /\ steps[1].Started = 0

\* C26: every Add, Start, Complete, Error or Skip that is called returns,
\* whatever callback is attached, the rendering one that reads GetSteps too.
C26_EveryOperationReturns ==
    (inCall.at # "idle" /\ inCall.op # "AttachRefresh") ~> (inCall.at = "idle")

\* the run has ended with the template or the script step in error
FailedWhileMaterializing ==
    pc \in {<<"exit", "process">>, <<"exit", "scripts">>}

\* init once more on the file system the failed run left, the same target,
\* --force set: validateConfig, and prepareProjectDirectory after it
RetryValidation == validateConfig([cfg EXCEPT !.Force = TRUE], fs)
RetryPreparation == prepareProjectDirectory(RetryValidation.cfg, fs)

\* C27 as claimed: after a run that failed in the template or script step, a
\* second run with the same target and --force passes validateConfig and
\* prepareProjectDirectory, in place and with a new directory alike.
C27_RetryWithForcePasses ==
    FailedWhileMaterializing =>
        RetryValidation.err = NoError /\ RetryPreparation.err = NoError

\* C27 amended: it does so in place; with a new directory the second run
\* fails validation, the directory the first run created being in the way.
C27_RetryWithForcePassesInPlace ==
    FailedWhileMaterializing =>
        IF cfg.Here
        THEN RetryValidation.err = NoError /\ RetryPreparation.err = NoError
        ELSE RetryValidation.err =
                NewValidationError("Directory " \o cfg.Name \o " already exists")

C27_Witness ==
    /\ pc = <<"exit", "scripts">>
    /\ cfg.Here
    /\ ~cfg.Force
    /\ assistant.Key = "claude"
    /\ WrittenInRun # {}
    /\ RetryPreparation.err = NoError
    /\ RetryPreparation.path = "."

\* C28: whenever the assistant step is done the resolved assistant is an entry
\* of the registry, with a key, a directory and a format, whether --ai or the
\* selector named it and however the user left the selector; and with an
\* unknown --ai key the step is in error and nothing has been created.
C28_ResolvedAssistantIsRegistered ==
    /\ StepStatus(steps, "assistant") = StatusDone =>
          /\ \E k \in DOMAIN AIAssistants : assistant = AIAssistants[k]
          /\ assistant.Key # ""
          /\ assistant.Directory # ""
          /\ assistant.Format # ""
    /\ (StepStatus(steps, "assistant") \in {StatusDone, StatusError}
           /\ cfg.AIAssistant # ""
           /\ cfg.AIAssistant \notin DOMAIN AIAssistants) =>
          /\ StepStatus(steps, "assistant") = StatusError
          /\ fs = fs0

\* runInit has returned (the command can also end before it, on its arguments)
RunInitReturned == pc[1] = "exit" /\ pc[2] # "args" /\ result.returned

\* C30: when runInit has returned no step is running; with an error exactly
\* one step is in error, the steps before it are done and the steps after it
\* pending; with nil every step is done, the git step being skipped instead
\* exactly when --no-git was given.
C30_StepsAtReturn ==
    RunInitReturned =>
        /\ Len(steps) = Len(StepList)
        /\ \A i \in 1..Len(steps) : steps[i].Status # StatusRunning
        /\ IF result.err # NoError
           THEN /\ Cardinality({i \in 1..Len(steps) :
                                   steps[i].Status = StatusError}) = 1
                /\ \A i \in 1..Len(steps) :
                      steps[i].Status = StatusError =>
                         /\ \A j \in 1..(i - 1) : steps[j].Status = StatusDone
                         /\ \A j \in (i + 1)..Len(steps) :
                               steps[j].Status = StatusPending
           ELSE \A i \in 1..Len(steps) :
                   steps[i].Status =
                      IF steps[i].Key = "git" /\ cfg.NoGit
                      THEN StatusSkipped ELSE StatusDone

C30_Witness ==
    /\ RunInitReturned
    /\ result.err = NoError
    /\ cfg.NoGit
    /\ StepStatus(steps, "git") = StatusSkipped
    /\ StepStatus(steps, "scripts") = StatusDone

====
